---- MODULE Spec2Model ----
(***************************************************************************)
(* go-installer-tools: the XAR (.pkg) metadata extractor.                  *)
(*                                                                         *)
(* A package is a sequence of bytes.  The 28-byte header is decoded from   *)
(* its big-endian bytes as encoding/binary does.  compress/zlib, bzip2,    *)
(* encoding/xml and howett.net/plist are libraries outside the repository: *)
(* a zlib stream is modelled as the two header bytes 78 9C, one length     *)
(* byte and that many payload bytes (trailing bytes are ignored, a short   *)
(* stream is an unexpected EOF), and the XML / plist decoders as the       *)
(* dictionary xmlDocs of the texts that are well-formed documents and the  *)
(* elements each one holds; any other text fails to decode.                *)
(***************************************************************************)
EXTENDS Integers, Sequences, FiniteSets, TLC

VARIABLES
  src,        \* the bytes of the file behind TempFileReader.Reader
  xmlDocs,    \* texts that decode as XML / plist, with the document decoded
  seekable,   \* TempFileReader.Reader is an *os.File
  rpos,       \* read position of TempFileReader.Reader
  buf,        \* TempFileReader.buf: [alloc |-> buf # nil, bytes |-> content]
  pc,         \* position of ExtractXARMetadata
  size,       \* bytes counted by the initial SHA-256 pass
  sha256Hash, \* state of the initial SHA-256 hasher: the bytes written to it
  sigInput,   \* the bytes CheckPKGSignature buffered
  sigErr,     \* the error CheckPKGSignature returned
  isSignedStatus,
  hdr,        \* header decoded by ExtractXARMetadata
  root,       \* TOC decoded by ExtractXARMetadata
  fileIdx,    \* index of the next TOC entry of the collection loop
  reads,      \* one record per readCompressedFile call of the loop
  distributionContents,
  packageInfoContents,
  meta,       \* the record under construction / returned
  strategy,   \* which strategy produced meta
  err,        \* the error ExtractXARMetadata returned
  passes,     \* the digest passes made: [alg |-> .., fault |-> ..]
  call,       \* the last call made on a TempFileReader on its own, its result
  distIn,     \* input of parseDistributionFile (decoded distributionXML)
  distScan,   \* its loops: [i |-> pkg-ref, j |-> bundle, st |-> locals]; i = 0 idle
  distOut,    \* its result
  pinfoIn,    \* input of getPackageInfo (decoded PackageInfo)
  pinfoLoop,  \* its loop: [i |-> bundle, st |-> locals]; i = 0 while idle
  pinfoOut    \* its result

vars == <<src, xmlDocs, call, seekable, passes, rpos, buf, pc, size, sha256Hash, sigInput,
          sigErr, isSignedStatus, hdr, root, fileIdx, reads,
          distributionContents, packageInfoContents, meta, strategy, err,
          distIn, distScan, distOut, pinfoIn, pinfoLoop, pinfoOut>>

distVars == <<distIn, distScan, distOut>>
pinfoVars == <<pinfoIn, pinfoLoop, pinfoOut>>

extractVars == <<src, xmlDocs, call, seekable, passes, rpos, buf, pc, size, sha256Hash,
                 sigInput, sigErr, isSignedStatus, hdr, root, fileIdx, reads,
                 distributionContents, packageInfoContents, meta, strategy,
                 err>>

(***************************************************************************)
(* Bytes and integers                                                      *)
(***************************************************************************)
Min(a, b) == IF a < b THEN a ELSE b

\* s[from+1 .. from+n] clipped to the bytes s has: Go's s[from:from+n]
\* after the caller's bounds checks.
Slice(s, from, n) ==
  IF n <= 0 \/ from < 0 \/ from >= Len(s) THEN <<>>
  ELSE SubSeq(s, from + 1, Min(from + n, Len(s)))

RECURSIVE Zeros(_)
Zeros(n) == IF n <= 0 THEN <<>> ELSE <<0>> \o Zeros(n - 1)

\* binary.BigEndian: the unsigned value of the first n bytes of bs
RECURSIVE BigEndianN(_, _)
BigEndianN(bs, n) ==
  IF n = 0 THEN 0 ELSE BigEndianN(bs, n - 1) * 256 + bs[n]

BigEndian(bs) == BigEndianN(bs, Len(bs))

Complement(bs) == [i \in 1..Len(bs) |-> 255 - bs[i]]

\* binary.BigEndian read into an int64: two's complement
Int64BE(bs) ==
  IF bs[1] >= 128 THEN 0 - BigEndian(Complement(bs)) - 1 ELSE BigEndian(bs)

\* the big-endian bytes of v in n bytes (v may be negative)
RECURSIVE PutBE(_, _)
PutBE(v, n) ==
  IF n = 0 THEN <<>>
  ELSE IF v < 0 THEN Complement(PutBE(0 - v - 1, n))
  ELSE PutBE(v \div 256, n - 1) \o <<v % 256>>

(***************************************************************************)
(* Constants of xar.go                                                     *)
(***************************************************************************)
xarMagic == 2019652129        \* 0x78617221
xarHeaderSize == 28
hashNone == 0
hashSHA1 == 1
hashMD5 == 2
hashSHA256 == 3
hashSHA512 == 4

NoErr == "nil"
ErrInvalidType == "invalid file type"
ErrNotSigned == "file is not signed"
EOF == "EOF"
ErrUnexpectedEOF == "unexpected EOF"

(***************************************************************************)
(* Library decoders                                                        *)
(***************************************************************************)
\* compress/zlib.NewReader: reads and checks the two-byte stream header
zlibNewReader(b) ==
  IF Len(b) < 2 THEN ErrUnexpectedEOF
  ELSE IF b[1] # 120 \/ b[2] # 156 THEN "zlib: invalid header"
  ELSE NoErr

\* io.ReadAll of a zlib reader whose header was accepted
zlibReadAll(b) ==
  IF Len(b) < 3 \/ Len(b) < 3 + b[3]
    THEN [err |-> ErrUnexpectedEOF, out |-> <<>>]
    ELSE [err |-> NoErr, out |-> SubSeq(b, 4, 3 + b[3])]

\* the stream zlibReadAll inflates to text
Deflate(text) == <<120, 156, Len(text)>> \o text

\* compress/bzip2: NewReader never fails, the first Read checks the magic "BZh"
bzip2ReadAll(b) ==
  IF Len(b) < 4 THEN [err |-> ErrUnexpectedEOF, out |-> <<>>]
  ELSE IF SubSeq(b, 1, 3) # <<66, 90, 104>>
    THEN [err |-> "bzip2 data invalid", out |-> <<>>]
  ELSE IF Len(b) < 4 + b[4] THEN [err |-> ErrUnexpectedEOF, out |-> <<>>]
  ELSE [err |-> NoErr, out |-> SubSeq(b, 5, 4 + b[4])]

\* encoding/xml and plist: a text decodes iff it is one of the documents
xmlWellFormed(text) == text \in DOMAIN xmlDocs

(***************************************************************************)
(* parse.go                                                                *)
(***************************************************************************)
ZeroHeader ==
  [Magic |-> 0, HeaderSize |-> 0, Version |-> 0, CompressedSize |-> 0,
   UncompressedSize |-> 0, HashType |-> 0]

\* the xarHeader struct as binary.Read fills it from 28 big-endian bytes
DecodeHeader(b) ==
  [Magic            |-> BigEndian(SubSeq(b, 1, 4)),
   HeaderSize       |-> BigEndian(SubSeq(b, 5, 6)),
   Version          |-> BigEndian(SubSeq(b, 7, 8)),
   CompressedSize   |-> Int64BE(SubSeq(b, 9, 16)),
   UncompressedSize |-> Int64BE(SubSeq(b, 17, 24)),
   HashType         |-> BigEndian(SubSeq(b, 25, 28))]

\* binary.Read(r, binary.BigEndian, &hdr) over the bytes r still holds
binaryRead(r) ==
  IF Len(r) = 0 THEN [err |-> EOF, hdr |-> ZeroHeader]
  ELSE IF Len(r) < xarHeaderSize THEN [err |-> ErrUnexpectedEOF, hdr |-> ZeroHeader]
  ELSE [err |-> NoErr, hdr |-> DecodeHeader(SubSeq(r, 1, xarHeaderSize))]

KnownHash(h) == h \in {hashSHA1, hashSHA256, hashSHA512}

parseHeader(r) ==
  LET rd == binaryRead(r) IN
  IF rd.err # NoErr THEN [hdr |-> ZeroHeader, hashType |-> 0, err |-> rd.err]
  ELSE IF rd.hdr.Magic # xarMagic
    THEN [hdr |-> rd.hdr, hashType |-> 0, err |-> ErrInvalidType]
  ELSE IF ~KnownHash(rd.hdr.HashType)
    THEN [hdr |-> ZeroHeader, hashType |-> 0, err |-> "unknown hash algorithm"]
  ELSE [hdr |-> rd.hdr, hashType |-> rd.hdr.HashType, err |-> NoErr]

decompress(r) ==
  IF zlibNewReader(r) # NoErr THEN [err |-> zlibNewReader(r), out |-> <<>>]
  ELSE zlibReadAll(r)

\* the toc struct: Signature / XSignature are the direct children of <toc>
NoTOC == [Signature |-> FALSE, XSignature |-> FALSE]

parseTOC(r) ==
  LET d == decompress(r) IN
  IF d.err # NoErr THEN [err |-> "decompressing TOC", toc |-> NoTOC]
  ELSE IF ~xmlWellFormed(d.out) THEN [err |-> "decoding TOC", toc |-> NoTOC]
  ELSE [err |-> NoErr,
        toc |-> [Signature  |-> xmlDocs[d.out].toc.signature,
                 XSignature |-> xmlDocs[d.out].toc.xsignature]]

(***************************************************************************)
(* xar.go: CheckPKGSignature                                               *)
(***************************************************************************)
\* CheckPKGSignature reporting a signature only when both markers are present
CheckPKGSignatureBothMarkers(pkg) ==
  LET h == parseHeader(Slice(pkg, 0, 28))
      base == h.hdr.HeaderSize
      t == parseTOC(Slice(pkg, base, h.hdr.CompressedSize))
  IN IF h.err # NoErr THEN h.err
     ELSE IF t.err # NoErr THEN t.err
     ELSE IF ~t.toc.Signature \/ ~t.toc.XSignature THEN ErrNotSigned
     ELSE NoErr

\* the value CheckPKGSignature returns once it has buffered pkg
CheckPKGSignature(pkg) ==
  LET h == parseHeader(Slice(pkg, 0, 28))
      base == h.hdr.HeaderSize
      t == parseTOC(Slice(pkg, base, h.hdr.CompressedSize))
  IN IF h.err # NoErr THEN h.err
     ELSE IF t.err # NoErr THEN t.err
     ELSE IF ~t.toc.Signature /\ ~t.toc.XSignature THEN ErrNotSigned
     ELSE NoErr

(***************************************************************************)
(* reader: TempFileReader                                                  *)
(***************************************************************************)
NilBuf == [alloc |-> FALSE, bytes |-> <<>>]

\* no call made yet
NoCall ==
  [op |-> "none", off |-> 0, n |-> 0, data |-> <<>>, err |-> NoErr, size |-> 0,
   afterRewind |-> FALSE]

\* TempFileReader.Read called until n bytes or EOF (io.ReadFull, io.Copy,
\* io.LimitReader) with t.Reader at pos and t.buf = b: every byte read is
\* appended to t.buf
tfrRead(pos, b, n) ==
  LET data == Slice(src, pos, n) IN
  [data |-> data,
   rpos |-> pos + Len(data),
   buf  |-> [alloc |-> TRUE, bytes |-> b.bytes \o data]]

\* TempFileReader.Rewind: seeks t.Reader only when it is an *os.File and
\* keeps the buffered content
tfrRewind(pos, b) ==
  [rpos |-> IF seekable THEN 0 ELSE pos,
   buf  |-> [alloc |-> TRUE, bytes |-> b.bytes]]

\* bytes.Reader.ReadAt(p, off) with len(p) = n over the content b
bytesReadAt(b, off, n) ==
  IF off < 0 THEN [data |-> <<>>, err |-> "negative offset"]
  ELSE IF off >= Len(b) THEN [data |-> <<>>, err |-> EOF]
  ELSE [data |-> Slice(b, off, n),
        err  |-> IF Len(Slice(b, off, n)) < n THEN EOF ELSE NoErr]

(***************************************************************************)
(* xar.go: readCompressedFile                                              *)
(***************************************************************************)
\* io.NewSectionReader(r, off, n)
NewSectionReader(off, n) == [base |-> off, off |-> off, limit |-> off + n]

\* (*SectionReader).ReadAt(p, off) with len(p) = n, over the content rat
sectionReadAt(rat, s, off, n) ==
  IF off < 0 \/ off >= s.limit - s.base THEN [data |-> <<>>, err |-> EOF]
  ELSE LET abs == off + s.base
           mx == s.limit - abs
       IN IF n > mx
            THEN LET r == bytesReadAt(rat, abs, mx)
                 IN [data |-> r.data, err |-> IF r.err = NoErr THEN EOF ELSE r.err]
            ELSE bytesReadAt(rat, abs, n)

\* io.ReadAll(fileReader): (*SectionReader).Read until EOF, every Read a
\* ReadAt of the heap reader at the file reader's position
sectionReadAll(rat, heapReader, fileReader) ==
  IF fileReader.off >= fileReader.limit THEN [data |-> <<>>, err |-> NoErr]
  ELSE LET r == sectionReadAt(rat, heapReader, fileReader.off,
                              fileReader.limit - fileReader.off)
       IN [data |-> r.data, err |-> IF r.err = EOF THEN NoErr ELSE r.err]

\* strings.Contains
Contains(s, sub) ==
  \E i \in 1..(Len(s) - Len(sub) + 1) : SubSeq(s, i, i + Len(sub) - 1) = sub

NoContents == [set |-> FALSE, bytes |-> <<>>]

\* readCompressedFile(rat, heapOffset, sectionLength, f) for f with f.Data # nil
readCompressedFile(rat, heapOffset, sectionLength, f) ==
  LET heapReader == NewSectionReader(heapOffset, sectionLength - heapOffset)
      fileReader == NewSectionReader(f.offset, f.length)
      raw == sectionReadAll(rat, heapReader, fileReader)
      dec == IF Contains(f.style, "x-gzip") THEN zlibReadAll(raw.data)
             ELSE bzip2ReadAll(raw.data)
  IN IF Contains(f.style, "x-gzip") /\ zlibNewReader(raw.data) # NoErr
       THEN [err |-> "create zlib reader", contents |-> NoContents]
     ELSE IF raw.err # NoErr
       THEN [err |-> "reading file", contents |-> NoContents]
     ELSE IF Contains(f.style, "x-gzip") \/ Contains(f.style, "x-bzip2")
       THEN IF dec.err # NoErr
              THEN [err |-> "reading file", contents |-> NoContents]
              ELSE [err |-> NoErr, contents |-> [set |-> TRUE, bytes |-> dec.out]]
     ELSE [err |-> NoErr, contents |-> [set |-> TRUE, bytes |-> raw.data]]

(***************************************************************************)
(* The metadata record                                                     *)
(***************************************************************************)
\* the zero PKGInstallerMetadata; a digest is <<algorithm, bytes hashed>>,
\* <<>> while unset; PkgSize is PkgSizeMB in bytes
EmptyMeta ==
  [ApplicationTitle |-> "", DisplayName |-> "", BundleName |-> "",
   Version |-> "", PrimaryBundleIdentifier |-> "", PrimaryBundlePath |-> "",
   PackageIDs |-> <<>>, MinimumOperatingSystemVersion |-> "",
   HostArchitectures |-> "", AppBundles |-> <<>>, IsSigned |-> FALSE,
   PkgSize |-> 0, SHA256Sum |-> <<>>, SHA1Sum |-> <<>>, MD5Sum |-> <<>>]

(***************************************************************************)
(* Distribution strategy: parseDistributionFile                            *)
(***************************************************************************)
NewAppBundle(bundle) ==
  [ID |-> bundle.ID, ShortVersion |-> bundle.CFBundleShortVersionString,
   AppLocationPath |-> bundle.Path]

ScanStart ==
  [appBundles |-> <<>>, primaryBundleIdentifier |-> "",
   primaryBundlePath |-> "", primaryFound |-> FALSE]

\* body of the inner loop, without the duplicate check
BundleStepNoDedup(st, pkgID, bundle) ==
  IF bundle.CFBundleShortVersionString # "" /\ bundle.ID # ""
    THEN [appBundles |-> Append(st.appBundles, NewAppBundle(bundle)),
          primaryBundleIdentifier |->
            IF ~st.primaryFound /\ pkgID = bundle.ID
              THEN pkgID ELSE st.primaryBundleIdentifier,
          primaryBundlePath |->
            IF ~st.primaryFound /\ pkgID = bundle.ID
              THEN bundle.Path ELSE st.primaryBundlePath,
          primaryFound |-> st.primaryFound \/ pkgID = bundle.ID]
    ELSE st

\* body of the inner loop, the primary overwritten by every match
BundleStepLastPrimary(st, pkgID, bundle) ==
  IF bundle.CFBundleShortVersionString # "" /\ bundle.ID # ""
    THEN LET duplicate ==
               \E i \in 1..Len(st.appBundles) : st.appBundles[i].ID = bundle.ID
         IN [appBundles |->
               IF duplicate THEN st.appBundles
               ELSE Append(st.appBundles, NewAppBundle(bundle)),
             primaryBundleIdentifier |->
               IF pkgID = bundle.ID THEN pkgID ELSE st.primaryBundleIdentifier,
             primaryBundlePath |->
               IF pkgID = bundle.ID THEN bundle.Path ELSE st.primaryBundlePath,
             primaryFound |-> st.primaryFound \/ pkgID = bundle.ID]
    ELSE st

\* body of the inner loop over pkg.BundleVersion.Bundles
BundleStep(st, pkgID, bundle) ==
  IF bundle.CFBundleShortVersionString # "" /\ bundle.ID # ""
    THEN LET duplicate ==
               \E i \in 1..Len(st.appBundles) : st.appBundles[i].ID = bundle.ID
         IN [appBundles |->
               IF duplicate THEN st.appBundles
               ELSE Append(st.appBundles, NewAppBundle(bundle)),
             primaryBundleIdentifier |->
               IF ~st.primaryFound /\ pkgID = bundle.ID
                 THEN pkgID ELSE st.primaryBundleIdentifier,
             primaryBundlePath |->
               IF ~st.primaryFound /\ pkgID = bundle.ID
                 THEN bundle.Path ELSE st.primaryBundlePath,
             primaryFound |-> st.primaryFound \/ pkgID = bundle.ID]
    ELSE st

\* the index of unique, non-empty AppBundle ids, from AppBundle i on
RECURSIVE UniqueIDs(_, _, _)
UniqueIDs(appBundles, i, pkgIDs) ==
  IF i > Len(appBundles) THEN pkgIDs
  ELSE UniqueIDs(appBundles, i + 1,
                 IF /\ appBundles[i].ID # ""
                    /\ ~(\E k \in 1..Len(pkgIDs) : pkgIDs[k] = appBundles[i].ID)
                   THEN Append(pkgIDs, appBundles[i].ID) ELSE pkgIDs)

\* the overall version taken from the last AppBundle
distVersionLast(appBundles, distXML) ==
  IF Len(appBundles) > 0 THEN appBundles[Len(appBundles)].ShortVersion
  ELSE distXML.ProductVersion

\* the overall version
distVersion(appBundles, distXML) ==
  IF Len(appBundles) > 0 THEN appBundles[1].ShortVersion
  ELSE distXML.ProductVersion

\* parseDistributionFile after its loops, st holding the loops' locals
parseDistributionFile(distXML, st) ==
  [EmptyMeta EXCEPT
     !.ApplicationTitle = distXML.Title,
     !.Version = distVersion(st.appBundles, distXML),
     !.PrimaryBundleIdentifier =
        IF st.primaryFound \/ Len(st.appBundles) = 0
          THEN st.primaryBundleIdentifier ELSE st.appBundles[1].ID,
     !.PackageIDs = UniqueIDs(st.appBundles, 1, <<>>),
     !.MinimumOperatingSystemVersion =
        IF Len(distXML.OsVersions) > 0 THEN distXML.OsVersions[1] ELSE "",
     !.DisplayName = distXML.Title,
     !.HostArchitectures =
        IF Len(distXML.Options) > 0 THEN distXML.Options[1] ELSE "",
     !.PrimaryBundlePath =
        IF st.primaryFound \/ Len(st.appBundles) = 0
          THEN st.primaryBundlePath ELSE st.appBundles[1].AppLocationPath,
     !.AppBundles = st.appBundles]

(***************************************************************************)
(* Strings (package strings, path/filepath)                                *)
(***************************************************************************)
CharAt(s, i) == SubSeq(s, i, i)

HasPrefix(s, pre) == Len(s) >= Len(pre) /\ SubSeq(s, 1, Len(pre)) = pre
HasSuffix(s, suf) ==
  Len(s) >= Len(suf) /\ SubSeq(s, Len(s) - Len(suf) + 1, Len(s)) = suf
TrimPrefix(s, pre) ==
  IF HasPrefix(s, pre) THEN SubSeq(s, Len(pre) + 1, Len(s)) ELSE s

\* the white space of the inputs drawn here (unicode.IsSpace has more)
IsSpace(c) == c \in {" ", "\t", "\n", "\r"}

\* the positions of s that hold the character c
Positions(s, c) == {i \in 1..Len(s) : CharAt(s, i) = c}

\* strings.TrimSpace: from the first to the last character that is no space
TrimSpace(s) ==
  IF \A i \in 1..Len(s) : IsSpace(CharAt(s, i)) THEN ""
  ELSE SubSeq(s,
              CHOOSE i \in 1..Len(s) :
                ~IsSpace(CharAt(s, i)) /\ \A j \in 1..(i - 1) : IsSpace(CharAt(s, j)),
              CHOOSE i \in 1..Len(s) :
                ~IsSpace(CharAt(s, i)) /\ \A j \in (i + 1)..Len(s) : IsSpace(CharAt(s, j)))

\* strings.NewReplacer("\n", "", "\r", "", "\t", "").Replace, from position i
RECURSIVE StripControlFrom(_, _)
StripControlFrom(s, i) ==
  IF i > Len(s) THEN ""
  ELSE (IF CharAt(s, i) \in {"\n", "\r", "\t"} THEN "" ELSE CharAt(s, i))
       \o StripControlFrom(s, i + 1)

StripControl(s) == StripControlFrom(s, 1)

\* the index of the last occurrence of the character c in s, 0 if none
LastIndex(s, c) ==
  IF Positions(s, c) = {} THEN 0
  ELSE CHOOSE i \in Positions(s, c) : \A j \in Positions(s, c) : j <= i

\* strings.Split(s, sep) for a one-character sep: the parts between the
\* start, the separators and the end of s
Split(s, sep) ==
  [k \in 1..(Cardinality(Positions(s, sep)) + 1) |->
     \* the k-th part lies between the (k-1)-th and the k-th separator
     SubSeq(s,
            (CHOOSE x \in Positions(s, sep) \cup {0} :
               Cardinality({y \in Positions(s, sep) : y < x}) = k - 2
                 \/ (k = 1 /\ x = 0)) + 1,
            (CHOOSE x \in Positions(s, sep) \cup {Len(s) + 1} :
               Cardinality({y \in Positions(s, sep) : y < x}) = k - 1) - 1)]

RECURSIVE JoinFrom(_, _, _)
JoinFrom(parts, sep, i) ==
  IF i > Len(parts) THEN ""
  ELSE IF i = Len(parts) THEN parts[i]
  ELSE parts[i] \o sep \o JoinFrom(parts, sep, i + 1)

JoinStrings(parts, sep) == JoinFrom(parts, sep, 1)

\* an element filepath.Clean drops
Dropped(e) == e = "" \/ e = "."

\* filepath.Clean over the elements of a path, from element i on: empty and
\* "." elements are dropped, ".." removes the element before it, is dropped
\* at the root, and is kept at the start of a relative path
RECURSIVE CleanElems(_, _, _, _)
CleanElems(elems, rooted, i, out) ==
  IF i > Len(elems) THEN out
  ELSE IF Dropped(elems[i]) THEN CleanElems(elems, rooted, i + 1, out)
  ELSE IF elems[i] # ".." THEN CleanElems(elems, rooted, i + 1, Append(out, elems[i]))
  ELSE IF out # <<>> /\ out[Len(out)] # ".."
    THEN CleanElems(elems, rooted, i + 1, SubSeq(out, 1, Len(out) - 1))
  ELSE IF rooted THEN CleanElems(elems, rooted, i + 1, out)
  ELSE CleanElems(elems, rooted, i + 1, Append(out, ".."))

filepathClean(path) ==
  IF path = "" THEN "."
  ELSE IF HasPrefix(path, "/")
    THEN "/" \o JoinStrings(CleanElems(Split(path, "/"), TRUE, 1, <<>>), "/")
  ELSE IF CleanElems(Split(path, "/"), FALSE, 1, <<>>) = <<>> THEN "."
  ELSE JoinStrings(CleanElems(Split(path, "/"), FALSE, 1, <<>>), "/")

\* filepath.Join(a, b)
filepathJoin(a, b) ==
  IF a # "" THEN filepathClean(a \o "/" \o b)
  ELSE IF b # "" THEN filepathClean(b)
  ELSE ""

\* filepath.Split: dir is everything up to and including the last separator
filepathSplit(path) ==
  LET i == LastIndex(path, "/") IN
  [dir |-> SubSeq(path, 1, i), file |-> SubSeq(path, i + 1, Len(path))]

(***************************************************************************)
(* PackageInfo strategy: getPackageInfo                                    *)
(***************************************************************************)
sanitizeBundleString(s) == StripControl(TrimSpace(s))

isValidAppFilePath(input) ==
  LET sp == filepathSplit(input) IN
  IF sp.dir = "" /\ sp.file = input THEN [base |-> sp.file, isValid |-> TRUE]
  ELSE IF HasSuffix(sp.file, ".app") /\ sp.dir = "Applications/"
    THEN [base |-> sp.file, isValid |-> TRUE]
  ELSE [base |-> "", isValid |-> FALSE]

\* filepath.Join(p.InstallLocation, bundle.Path) where there is a location
joinedPath(p, bundle) ==
  IF p.InstallLocation # "" THEN filepathJoin(p.InstallLocation, bundle.Path)
  ELSE bundle.Path

\* the installPath the loop computes from the joined path
installPath(joined) == TrimPrefix(TrimPrefix(joined, "/"), "./")

LoopStart ==
  [name |-> "", identifier |-> "", version |-> "", displayName |-> "",
   bundleName |-> "", minOSVersion |-> "", packageIDSet |-> {}]

\* the bundle's id entered into packageIDSet
AddPackageID(st, bundleID) ==
  [st EXCEPT !.packageIDSet = IF bundleID # "" THEN @ \cup {bundleID} ELSE @]

\* body of the loop over p.Bundles, a qualifying bundle setting only the
\* fields still empty; v is what isValidAppFilePath returned
PinfoStepFirstWins(st, bundle, v) ==
  AddPackageID(
    IF v.isValid /\ st.name = "" /\ st.identifier = "" /\ st.version = ""
      THEN [st EXCEPT
              !.identifier = sanitizeBundleString(bundle.ID),
              !.name = v.base,
              !.version = sanitizeBundleString(bundle.CFBundleShortVersionString),
              !.displayName = sanitizeBundleString(bundle.CFBundleDisplayName),
              !.bundleName = sanitizeBundleString(bundle.CFBundleName),
              !.minOSVersion = sanitizeBundleString(bundle.LSMinimumSystemVersion)]
      ELSE st,
    sanitizeBundleString(bundle.ID))

\* body of the loop over p.Bundles; v is what isValidAppFilePath returned
PinfoStep(st, bundle, v) ==
  AddPackageID(
    IF v.isValid
      THEN [st EXCEPT
              !.identifier = sanitizeBundleString(bundle.ID),
              !.name = v.base,
              !.version = sanitizeBundleString(bundle.CFBundleShortVersionString),
              !.displayName = sanitizeBundleString(bundle.CFBundleDisplayName),
              !.bundleName = sanitizeBundleString(bundle.CFBundleName),
              !.minOSVersion = sanitizeBundleString(bundle.LSMinimumSystemVersion)]
      ELSE st,
    sanitizeBundleString(bundle.ID))

\* getPackageInfo after its loop: the fallbacks, given the identifier they
\* settle on; packageIDs is returned as the set the map holds, the caller's
\* slice is one of its orderings (Go's map iteration order)
getPackageInfo(p, st, identifier) ==
  [name |-> IF st.name = ""
              THEN Split(identifier, ".")[Len(Split(identifier, "."))]
              ELSE st.name,
   identifier |-> identifier,
   version |-> IF st.version = "" THEN sanitizeBundleString(p.Version)
               ELSE st.version,
   packageIDs |-> IF st.packageIDSet = {} /\ identifier # ""
                    THEN {identifier} ELSE st.packageIDSet,
   displayName |-> st.displayName, bundleName |-> st.bundleName,
   minOSVersion |-> st.minOSVersion]

\* the identifier without its fallback
fallbackIdentifierNone(p, st) == st.identifier

\* the identifier after its fallback
fallbackIdentifier(p, st) ==
  IF st.identifier = "" THEN sanitizeBundleString(p.Identifier) ELSE st.identifier

\* the orderings of a set of ids
Orderings(S) ==
  {q \in [1..Cardinality(S) -> S] : \A i, j \in 1..Cardinality(S) : i # j => q[i] # q[j]}

\* parsePackageInfoFile once getPackageInfo has returned g
parsePackageInfoFile(g, order) ==
  [EmptyMeta EXCEPT
     !.ApplicationTitle = g.name,
     !.Version = g.version,
     !.PrimaryBundleIdentifier = g.identifier,
     !.PackageIDs = order,
     !.DisplayName = g.displayName,
     !.MinimumOperatingSystemVersion = g.minOSVersion]

(***************************************************************************)
(* Bounds and inputs                                                       *)
(***************************************************************************)
MaxPkgRefs == 2       \* pkg-ref elements of a Distribution document
MaxBundles == 2       \* bundle elements of one bundle-version
MaxPinfoBundles == 3  \* bundles of a PackageInfo

SeqsUpTo(S, n) == UNION {[1..k -> S] : k \in 0..n}

DistBundle(id, sv, path) ==
  [CFBundleShortVersionString |-> sv, ID |-> id, Path |-> path]

DistBundles ==
  {DistBundle("a", "1", "/A1"), DistBundle("a", "2", "/A2"),
   DistBundle("b", "1", "/B1"), DistBundle("a", "", "/A0"),
   DistBundle("", "1", "/N1")}

DistPkgRefs ==
  {[ID |-> id, Version |-> "9", BundleVersion |-> [present |-> FALSE, Bundles |-> <<>>]]
     : id \in {"a", "b"}}
  \cup
  {[ID |-> id, Version |-> "9", BundleVersion |-> [present |-> TRUE, Bundles |-> bs]]
     : id \in {"a", "b"}, bs \in SeqsUpTo(DistBundles, MaxBundles)}

DistDoc(pkgRefs) ==
  [Title |-> "T", Options |-> <<"arm64", "x86_64">>, OsVersions |-> <<"11", "12">>,
   PkgRefs |-> pkgRefs, ProductVersion |-> "1"]

DistInputs == {DistDoc(refs) : refs \in SeqsUpTo(DistPkgRefs, MaxPkgRefs)}

BundleInfo(path, id, sv) ==
  [Path |-> path, ID |-> id, CFBundleShortVersionString |-> sv,
   CFBundleDisplayName |-> " D" \o sv, CFBundleName |-> "N" \o sv \o "\n",
   LSMinimumSystemVersion |-> "10." \o sv]

PinfoBundles ==
  {BundleInfo("Foo.app", "com.x.foo", "1.0"),
   BundleInfo("Applications/Bar.app", "com.x.bar", "2.0"),
   BundleInfo("Library/Baz.app", "com.x.baz", "3.0"),
   BundleInfo("./Foo.app", " com.x.foo\n", ""),
   BundleInfo("Applications/Bar.app", "", "\t4.0 "),
   BundleInfo("", "com.x.baz", "5.0")}

PinfoInputs ==
  {[Version |-> v, InstallLocation |-> loc, Identifier |-> id, Bundles |-> bs]
     : v \in {"", "9.0"}, loc \in {"", "/", "/Applications"},
       id \in {"", "com.x.pkg "}, bs \in SeqsUpTo(PinfoBundles, MaxPinfoBundles)}

(***************************************************************************)
(* The two strategies, one step per iteration of their loops               *)
(***************************************************************************)
EmptyDist == DistDoc(<<>>)
EmptyPinfo == [Version |-> "", InstallLocation |-> "", Identifier |-> "", Bundles |-> <<>>]

NoResult == [done |-> FALSE, meta |-> EmptyMeta]
NoPinfoResult ==
  [done |-> FALSE, meta |-> EmptyMeta, bundleName |-> "", name |-> ""]

ScanIdle == [i |-> 0, j |-> 0, st |-> ScanStart]
ScanEntry == [i |-> 1, j |-> 1, st |-> ScanStart]
LoopIdle == [i |-> 0, st |-> LoopStart]
LoopEntry == [i |-> 1, st |-> LoopStart]

DistIdle == distIn = EmptyDist /\ distScan = ScanIdle /\ distOut = NoResult
PinfoIdle == pinfoIn = EmptyPinfo /\ pinfoLoop = LoopIdle /\ pinfoOut = NoPinfoResult

IdleExtract ==
  /\ src = <<>> /\ xmlDocs = <<>> /\ seekable = TRUE /\ passes = <<>> /\ call = NoCall
  /\ rpos = 0
  /\ buf = NilBuf /\ pc = "idle" /\ size = 0 /\ sha256Hash = <<>>
  /\ sigInput = <<>> /\ sigErr = NoErr /\ isSignedStatus = FALSE
  /\ hdr = ZeroHeader /\ root = <<>> /\ fileIdx = 0 /\ reads = <<>>
  /\ distributionContents = NoContents /\ packageInfoContents = NoContents
  /\ meta = [present |-> FALSE, rec |-> EmptyMeta] /\ strategy = "none"
  /\ err = NoErr

\* the pkg-ref the outer loop of parseDistributionFile is at
ScanInPkgRef == distScan.i >= 1 /\ distScan.i <= Len(distIn.PkgRefs)

\* the inner loop has a bundle left in that pkg-ref
ScanHasBundle ==
  /\ distIn.PkgRefs[distScan.i].BundleVersion.present
  /\ distScan.j <= Len(distIn.PkgRefs[distScan.i].BundleVersion.Bundles)

\* one iteration of the inner loop
ScanBundle ==
  /\ ScanInPkgRef /\ ScanHasBundle
  /\ distScan' =
       [distScan EXCEPT
          !.j = @ + 1,
          !.st = BundleStep(@, distIn.PkgRefs[distScan.i].ID,
                            distIn.PkgRefs[distScan.i].BundleVersion.Bundles[distScan.j])]
  /\ UNCHANGED <<extractVars, distIn, distOut, pinfoVars>>

\* the outer loop moves on: no bundle-version, or its bundles are done
NextPkgRef ==
  /\ ScanInPkgRef /\ ~ScanHasBundle
  /\ distScan' = [distScan EXCEPT !.i = @ + 1, !.j = 1]
  /\ UNCHANGED <<extractVars, distIn, distOut, pinfoVars>>

\* after the loops: the default primary, the id index, the version
FinishDistribution ==
  /\ distScan.i > Len(distIn.PkgRefs) /\ ~distOut.done
  /\ distOut' = [done |-> TRUE, meta |-> parseDistributionFile(distIn, distScan.st)]
  /\ UNCHANGED <<extractVars, distIn, distScan, pinfoVars>>

InitDist ==
  /\ IdleExtract
  /\ distIn \in DistInputs /\ distScan = ScanEntry /\ distOut = NoResult
  /\ PinfoIdle

NextDist ==
  \/ ScanBundle
  \/ NextPkgRef
  \/ FinishDistribution

SpecDist == InitDist /\ [][NextDist]_vars

\* one iteration of the loop of getPackageInfo
PinfoBundle ==
  /\ pinfoLoop.i >= 1 /\ pinfoLoop.i <= Len(pinfoIn.Bundles)
  /\ \E joined \in {joinedPath(pinfoIn, pinfoIn.Bundles[pinfoLoop.i])} :
     \E path \in {installPath(joined)} :
     \E v \in {isValidAppFilePath(path)} :
       pinfoLoop' = [i |-> pinfoLoop.i + 1,
                     st |-> PinfoStep(pinfoLoop.st, pinfoIn.Bundles[pinfoLoop.i], v)]
  /\ UNCHANGED <<extractVars, distVars, pinfoIn, pinfoOut>>

\* after the loop: the fallbacks, the set turned into a slice, and the
\* record parsePackageInfoFile builds
FinishPackageInfo ==
  /\ pinfoLoop.i > Len(pinfoIn.Bundles) /\ ~pinfoOut.done
  /\ \E identifier \in {fallbackIdentifier(pinfoIn, pinfoLoop.st)} :
     \E g \in {getPackageInfo(pinfoIn, pinfoLoop.st, identifier)} :
     \E order \in Orderings(g.packageIDs) :
       pinfoOut' = [done |-> TRUE, meta |-> parsePackageInfoFile(g, order),
                    bundleName |-> g.bundleName, name |-> g.name]
  /\ UNCHANGED <<extractVars, distVars, pinfoIn, pinfoLoop>>

InitPinfo ==
  /\ IdleExtract
  /\ DistIdle
  /\ pinfoIn \in PinfoInputs /\ pinfoLoop = LoopEntry /\ pinfoOut = NoPinfoResult

NextPinfo ==
  \/ PinfoBundle
  \/ FinishPackageInfo

SpecPinfo == InitPinfo /\ [][NextPinfo]_vars

(***************************************************************************)
(* Distribution strategy: properties                                       *)
(***************************************************************************)
\* every bundle of the document with the id of the pkg-ref listing it, in
\* document order
RECURSIVE FlatBundles(_)
FlatBundles(pkgRefs) ==
  IF pkgRefs = <<>> THEN <<>>
  ELSE (IF Head(pkgRefs).BundleVersion.present
          THEN [i \in 1..Len(Head(pkgRefs).BundleVersion.Bundles) |->
                  [pkgID |-> Head(pkgRefs).ID,
                   b |-> Head(pkgRefs).BundleVersion.Bundles[i]]]
          ELSE <<>>)
       \o FlatBundles(Tail(pkgRefs))

HasIdAndVersion(e) == e.b.ID # "" /\ e.b.CFBundleShortVersionString # ""
ListedUnderOwnId(e) == e.pkgID = e.b.ID

AllBundles == FlatBundles(distIn.PkgRefs)
Eligible == SelectSeq(AllBundles, HasIdAndVersion)

\* position in s of the first element with bundle id `id`
FirstWithId(s, id) ==
  CHOOSE k \in 1..Len(s) : s[k].b.ID = id /\ \A j \in 1..(k - 1) : s[j].b.ID # id

\* C7: AppBundles holds exactly one entry per id among the bundles with
\* non-empty id and short version, carrying the version and path of the
\* first such bundle, in first-seen order; packageIDs is the sequence of ids
C7_DedupFirstWins ==
  distOut.done =>
    LET ab == distOut.meta.AppBundles IN
    /\ \A k \in 1..Len(Eligible) :
         \E i \in 1..Len(ab) : ab[i].ID = Eligible[k].b.ID
    /\ \A i \in 1..Len(ab) :
         /\ \E k \in 1..Len(Eligible) : Eligible[k].b.ID = ab[i].ID
         /\ LET first == Eligible[FirstWithId(Eligible, ab[i].ID)].b
            IN /\ ab[i].ShortVersion = first.CFBundleShortVersionString
               /\ ab[i].AppLocationPath = first.Path
    /\ \A i, j \in 1..Len(ab) : i # j => ab[i].ID # ab[j].ID
    /\ \A i, j \in 1..Len(ab) :
         i < j => FirstWithId(Eligible, ab[i].ID) < FirstWithId(Eligible, ab[j].ID)
    /\ distOut.meta.PackageIDs = [i \in 1..Len(ab) |-> ab[i].ID]

\* the same id listed twice with differing versions, after another id
C7_Witness ==
  /\ distOut.done
  /\ Len(distOut.meta.AppBundles) = 2
  /\ \E j, k \in 1..Len(Eligible) :
       /\ j < k /\ Eligible[j].b.ID = Eligible[k].b.ID
       /\ Eligible[j].b.CFBundleShortVersionString
            # Eligible[k].b.CFBundleShortVersionString
       /\ Eligible[j].b.Path # Eligible[k].b.Path

PrimaryOf(m) ==
  <<m.PrimaryBundleIdentifier, m.PrimaryBundlePath>>

\* the primary pair when the first of the bundles `cands` listed under their
\* own pkg-ref id wins, with the first AppBundle as the default
PrimaryFrom(cands, ab) ==
  LET own == SelectSeq(cands, ListedUnderOwnId) IN
  IF own # <<>> THEN <<own[1].b.ID, own[1].b.Path>>
  ELSE IF ab # <<>> THEN <<ab[1].ID, ab[1].AppLocationPath>>
  ELSE <<"", "">>

C9_VersionSource ==
  distOut.done =>
    /\ (Eligible = <<>>) = (distOut.meta.AppBundles = <<>>)
    /\ Eligible # <<>> =>
         /\ distOut.meta.Version = Eligible[1].b.CFBundleShortVersionString
         /\ distOut.meta.Version = distOut.meta.AppBundles[1].ShortVersion
    /\ Eligible = <<>> => distOut.meta.Version = distIn.ProductVersion
    /\ \A k \in 1..Len(distIn.PkgRefs) :
         distOut.meta.Version # distIn.PkgRefs[k].Version

\* two AppBundles with different versions, neither the product version first
C9_Witness ==
  /\ distOut.done
  /\ Len(distOut.meta.AppBundles) = 2
  /\ distOut.meta.AppBundles[1].ShortVersion # distOut.meta.AppBundles[2].ShortVersion
  /\ distOut.meta.AppBundles[1].ShortVersion # distIn.ProductVersion
  /\ distOut.meta.Version = "2"

(***************************************************************************)
(* PackageInfo strategy: properties                                        *)
(***************************************************************************)
Qualifies(p, bundle) ==
  isValidAppFilePath(installPath(joinedPath(p, bundle))).isValid

\* positions of the qualifying bundles of pinfoIn
Qualifying == {i \in 1..Len(pinfoIn.Bundles) : Qualifies(pinfoIn, pinfoIn.Bundles[i])}

LastQualifying == pinfoIn.Bundles[CHOOSE i \in Qualifying : \A j \in Qualifying : j <= i]

\* the file name of the install path of a bundle
BaseName(p, bundle) == filepathSplit(installPath(joinedPath(p, bundle))).file

NameIdVersion(st) == <<st.name, st.identifier, st.version>>

LastDotPart(id) == Split(id, ".")[Len(Split(id, "."))]

\* the loop passes over a non-qualifying bundle and keeps the three values
NonQualifyingKeeps ==
  (/\ pinfoLoop.i >= 1 /\ pinfoLoop.i <= Len(pinfoIn.Bundles)
   /\ pinfoLoop'.i = pinfoLoop.i + 1
   /\ ~Qualifies(pinfoIn, pinfoIn.Bundles[pinfoLoop.i]))
    => NameIdVersion(pinfoLoop'.st) = NameIdVersion(pinfoLoop.st)

\* the three values are those of the last qualifying bundle
LastQualifyingValues ==
  (pinfoOut.done /\ Cardinality(Qualifying) >= 2) =>
    /\ pinfoOut.meta.Version =
         sanitizeBundleString(LastQualifying.CFBundleShortVersionString)
    /\ pinfoOut.meta.PrimaryBundleIdentifier = sanitizeBundleString(LastQualifying.ID)
    /\ pinfoOut.meta.ApplicationTitle = BaseName(pinfoIn, LastQualifying)

\* the three values are those of the last qualifying bundle, an empty one
\* replaced by its fallback
LastQualifyingOrFallback ==
  (pinfoOut.done /\ Cardinality(Qualifying) >= 2) =>
    LET v == sanitizeBundleString(LastQualifying.CFBundleShortVersionString)
        id == sanitizeBundleString(LastQualifying.ID)
        base == BaseName(pinfoIn, LastQualifying)
    IN /\ v # "" => pinfoOut.meta.Version = v
       /\ v = "" => pinfoOut.meta.Version = sanitizeBundleString(pinfoIn.Version)
       /\ id # "" => pinfoOut.meta.PrimaryBundleIdentifier = id
       /\ id = "" => pinfoOut.meta.PrimaryBundleIdentifier
                       = sanitizeBundleString(pinfoIn.Identifier)
       /\ base # "" => pinfoOut.meta.ApplicationTitle = base
       /\ base = "" => pinfoOut.meta.ApplicationTitle
                         = LastDotPart(pinfoOut.meta.PrimaryBundleIdentifier)

C10_WitnessReversed ==
  /\ pinfoOut.done
  /\ Len(pinfoIn.Bundles) = 2
  /\ Qualifying = {1, 2}
  /\ pinfoIn.Bundles[1].CFBundleShortVersionString = "2.0"
  /\ pinfoIn.Bundles[2].CFBundleShortVersionString = "1.0"
  /\ pinfoOut.meta.Version = "1.0"

\* C11: with a qualifying bundle, displayName, bundleName and minimumOSVersion
\* of the record are the sanitized display name, bundle name and minimum
\* system version of the last qualifying bundle
C11_WinningBundleFields ==
  (pinfoOut.done /\ Qualifying # {}) =>
    /\ pinfoOut.meta.DisplayName
         = sanitizeBundleString(LastQualifying.CFBundleDisplayName)
    /\ pinfoOut.meta.BundleName = sanitizeBundleString(LastQualifying.CFBundleName)
    /\ pinfoOut.meta.MinimumOperatingSystemVersion
         = sanitizeBundleString(LastQualifying.LSMinimumSystemVersion)

\* no bundle of pinfoIn has an id that is non-empty once sanitized
NoBundleID ==
  \A i \in 1..Len(pinfoIn.Bundles) : sanitizeBundleString(pinfoIn.Bundles[i].ID) = ""

\* what C12 says of packageIDs
SolePackageID ==
  /\ (NoBundleID /\ pinfoOut.meta.PrimaryBundleIdentifier # "")
       => pinfoOut.meta.PackageIDs = <<pinfoOut.meta.PrimaryBundleIdentifier>>
  /\ pinfoOut.meta.PackageIDs = <<>> => pinfoOut.meta.PrimaryBundleIdentifier = ""

\* C12 as stated: without a qualifying bundle, version and identifier are the
\* top-level ones as they stand in the document and name is the last
\* dot-separated component of the identifier; without a bundle id the
\* identifier is the sole package id
C12_FallbacksVerbatim ==
  pinfoOut.done =>
    /\ Qualifying = {} =>
         /\ pinfoOut.meta.Version = pinfoIn.Version
         /\ pinfoOut.meta.PrimaryBundleIdentifier = pinfoIn.Identifier
         /\ pinfoOut.meta.ApplicationTitle
              = LastDotPart(pinfoOut.meta.PrimaryBundleIdentifier)
    /\ SolePackageID

\* C12 amended: without a qualifying bundle, version and identifier are the
\* sanitized top-level ones and name is the last dot-separated component of
\* that identifier; without a bundle id the identifier is the sole package id
C12_Fallbacks ==
  pinfoOut.done =>
    /\ Qualifying = {} =>
         /\ pinfoOut.meta.Version = sanitizeBundleString(pinfoIn.Version)
         /\ pinfoOut.meta.PrimaryBundleIdentifier
              = sanitizeBundleString(pinfoIn.Identifier)
         /\ pinfoOut.meta.ApplicationTitle
              = LastDotPart(sanitizeBundleString(pinfoIn.Identifier))
    /\ SolePackageID

\* bundles without an id, none qualifying: every value is a fallback
C12_Witness ==
  /\ pinfoOut.done
  /\ pinfoIn.Bundles # <<>> /\ Qualifying = {} /\ NoBundleID
  /\ pinfoOut.meta.Version = "9.0"
  /\ pinfoOut.meta.PrimaryBundleIdentifier = "com.x.pkg"
  /\ pinfoOut.meta.ApplicationTitle = "pkg"
  /\ pinfoOut.meta.PackageIDs = <<"com.x.pkg">>

(***************************************************************************)
(* Packages                                                                *)
(***************************************************************************)
MaxOffset == 22   \* largest data offset of the entry of a range package
MaxLength == 3    \* largest data length of the entry of a range package

MagicBytes == <<120, 97, 114, 33>>     \* "xar!"
ZipBytes == <<80, 75, 3, 4>>

HeaderBytes(magic, hs, cs, ht) ==
  magic \o PutBE(hs, 2) \o PutBE(1, 2) \o PutBE(cs, 8) \o PutBE(64, 8) \o PutBE(ht, 4)

TocText == <<60, 120>>
DistText == <<60, 105, 62>>
PinfoText == <<60, 112, 108, 62>>
Bzip(text) == <<66, 90, 104, Len(text)>> \o text

\* the heap of every package: the two documents stored, then the
\* Distribution deflated and the PackageInfo bzip2-compressed
HeapBytes == DistText \o PinfoText \o Deflate(DistText) \o Bzip(PinfoText)

StyleNone == ""
StyleOctet == "application/octet-stream"
StyleGzip == "application/x-gzip"
StyleBzip2 == "application/x-bzip2"

\* a <file> element of the TOC; hasData is f.Data # nil
File(name, off, len, style) ==
  [name |-> name, hasData |-> TRUE, offset |-> off, length |-> len, style |-> style]
FileNoData(name) ==
  [name |-> name, hasData |-> FALSE, offset |-> 0, length |-> 0, style |-> ""]

\* a TOC document: the signature elements directly under <toc>, those
\* nested in a <file>, and the <file> elements directly under <toc>
TocBody(sig, xsig, nested, files) ==
  [signature |-> sig, xsignature |-> xsig, nestedSignature |-> nested, files |-> files]


Doc(rootName, toc, dist, pinfo) ==
  [rootName |-> rootName, toc |-> toc, dist |-> dist, pinfo |-> pinfo]

TheDist ==
  DistDoc(<<[ID |-> "b", Version |-> "9",
             BundleVersion |-> [present |-> TRUE,
                                Bundles |-> <<DistBundle("a", "2", "/A2"),
                                              DistBundle("b", "1", "/B1")>>]]>>)

ThePinfo ==
  [Version |-> "9.0", InstallLocation |-> "/Applications", Identifier |-> "com.x.pkg",
   Bundles |-> <<BundleInfo("Foo.app", "com.x.foo", "1.0"),
                 BundleInfo("Bar.app", "com.x.bar", "2.0")>>]

\* what the decoders make of the texts of a package whose TOC is toc
Docs(tocRoot, toc) ==
  (TocText :> Doc(tocRoot, toc, EmptyDist, EmptyPinfo))
  @@ (DistText :> Doc("installer-gui-script", TocBody(FALSE, FALSE, FALSE, <<>>),
                      TheDist, EmptyPinfo))
  @@ (PinfoText :> Doc("plist", TocBody(FALSE, FALSE, FALSE, <<>>),
                       EmptyDist, ThePinfo))

TocStream == Deflate(TocText)

\* the bytes at offset 28 and the declared compressed size, per TOC variant
TocArea(tv) ==
  CASE tv = "good"      -> [bytes |-> TocStream, cs |-> Len(TocStream)]
    [] tv = "cs0"       -> [bytes |-> TocStream, cs |-> 0]
    [] tv = "csneg"     -> [bytes |-> TocStream, cs |-> 0 - 1]
    [] tv = "truncated" -> [bytes |-> TocStream, cs |-> Len(TocStream) - 1]
    [] tv = "corrupt"   -> [bytes |-> Zeros(Len(TocStream)), cs |-> Len(TocStream)]
    [] tv = "badxml"    -> [bytes |-> Deflate(<<60, 60>>), cs |-> Len(TocStream)]
    [] tv = "badroot"   -> [bytes |-> TocStream, cs |-> Len(TocStream)]

TocVariants == {"good", "cs0", "csneg", "truncated", "corrupt", "badxml", "badroot"}

\* the layouts: "std" declares the 28-byte header; "far" declares a longer
\* header whose TOC follows padding; "two" declares a longer header and
\* holds a TOC stream at offset 28 and another at the declared header size;
\* "gap" declares a longer header and holds a TOC stream at offset 28 only
Layouts == {"std", "far", "two", "gap"}

Package(magic, ht, lay, tv, toc) ==
  LET a == TocArea(tv)
      hs == IF lay = "std" THEN xarHeaderSize ELSE xarHeaderSize + Len(a.bytes)
      body == CASE lay = "std" -> a.bytes
                [] lay = "far" -> Zeros(Len(a.bytes)) \o a.bytes
                [] lay = "two" -> a.bytes \o a.bytes
                [] lay = "gap" -> a.bytes
  IN [bytes |-> HeaderBytes(magic, hs, a.cs, ht) \o body \o HeapBytes,
      docs  |-> Docs(IF tv = "badroot" THEN "plist" ELSE "xar", toc)]

RawInput(bytes) == [bytes |-> bytes, docs |-> Docs("xar", TocBody(FALSE, FALSE, FALSE, <<>>))]

BasicToc == TocBody(FALSE, FALSE, FALSE, <<File("Distribution", 0, 3, StyleNone)>>)

\* inputs shorter than the header
ShortInputs ==
  {RawInput(<<>>), RawInput(SubSeq(MagicBytes, 1, 3)),
   RawInput(MagicBytes \o Zeros(6)), RawInput(ZipBytes \o Zeros(6)),
   RawInput(SubSeq(HeaderBytes(MagicBytes, 28, 5, hashSHA1), 1, 27)),
   RawInput(SubSeq(HeaderBytes(ZipBytes, 28, 5, hashSHA1), 1, 27))}

\* every magic, hash id, layout and TOC variant around one TOC
HeaderPackages ==
  {Package(magic, ht, lay, tv, BasicToc)
     : magic \in {MagicBytes, ZipBytes}, ht \in 0..5, lay \in Layouts, tv \in TocVariants}

\* one stored entry at every offset and length around the heap
RangePackages ==
  {Package(MagicBytes, hashSHA1, lay, "good",
           TocBody(FALSE, FALSE, FALSE, <<File("Distribution", off, len, style)>>))
     : lay \in {"std", "two"}, off \in 0..MaxOffset, len \in 0..MaxLength,
       style \in {StyleNone, StyleOctet}}

DistEntries ==
  {<<>>, <<File("Distribution", 0, 3, StyleNone)>>, <<FileNoData("Distribution")>>,
   <<File("Distribution", 0, 2, StyleNone)>>, <<File("Distribution", 7, 6, StyleGzip)>>,
   <<File("Distribution", 0, 3, StyleGzip)>>, <<File("Distribution", 3, 4, StyleNone)>>}

PinfoEntries ==
  {<<>>, <<File("PackageInfo", 3, 4, StyleOctet)>>,
   <<File("PackageInfo", 13, 8, StyleBzip2)>>, <<File("PackageInfo", 3, 3, StyleNone)>>,
   <<File("PackageInfo", 13, 8, StyleNone)>>}

Markers == {<<FALSE, FALSE, FALSE>>, <<TRUE, FALSE, FALSE>>, <<FALSE, TRUE, FALSE>>,
            <<TRUE, TRUE, FALSE>>, <<FALSE, FALSE, TRUE>>}

\* every combination of signature elements and metadata entries
StrategyPackages ==
  {Package(MagicBytes, hashSHA256, "std", "good",
           TocBody(m[1], m[2], m[3], <<File("Scripts", 13, 8, StyleNone)>> \o d \o pi))
     : m \in Markers, d \in DistEntries, pi \in PinfoEntries}

Packages == ShortInputs \cup HeaderPackages \cup RangePackages \cup StrategyPackages

\* packages also read through a reader that is not an *os.File
PipedPackages ==
  ShortInputs \cup {Package(MagicBytes, hashSHA1, "std", "good", BasicToc)}

(***************************************************************************)
(* xar.go: ExtractXARMetadata                                              *)
(***************************************************************************)
NoMeta == [present |-> FALSE, rec |-> EmptyMeta]

Init ==
  /\ \E p \in Packages, sk \in BOOLEAN :
       /\ sk = FALSE => p \in PipedPackages
       /\ src = p.bytes /\ xmlDocs = p.docs /\ seekable = sk
  /\ rpos = 0 /\ buf = NilBuf /\ pc = "start" /\ size = 0 /\ sha256Hash = <<>>
  /\ sigInput = <<>> /\ sigErr = NoErr /\ isSignedStatus = FALSE
  /\ hdr = ZeroHeader /\ root = <<>> /\ fileIdx = 0 /\ reads = <<>>
  /\ distributionContents = NoContents /\ packageInfoContents = NoContents
  /\ meta = NoMeta /\ strategy = "none" /\ err = NoErr /\ passes = <<>> /\ call = NoCall
  /\ DistIdle /\ PinfoIdle

\* return nil, e
Fail(e) == pc' = "done" /\ err' = e /\ meta' = NoMeta

\* lines 117-121: the initial SHA-256 pass that also counts the bytes
InitialHash ==
  /\ pc = "start"
  /\ LET rd == tfrRead(rpos, buf, Len(src)) IN
     /\ sha256Hash' = rd.data
     /\ size' = Len(rd.data)
     /\ rpos' = rd.rpos /\ buf' = rd.buf
  /\ pc' = "sigcheck"
  /\ UNCHANGED <<src, xmlDocs, call, seekable, passes, sigInput, sigErr, isSignedStatus, hdr,
                 root, fileIdx, reads, distributionContents, packageInfoContents,
                 meta, strategy, err, distVars, pinfoVars>>

\* lines 131-143 with ErrInvalidType taken for "not signed"
signatureVerdictLenient(e) ==
  IF e = NoErr THEN [abort |-> FALSE, isSigned |-> TRUE, err |-> NoErr]
  ELSE IF e = ErrNotSigned \/ e = ErrInvalidType
    THEN [abort |-> FALSE, isSigned |-> FALSE, err |-> NoErr]
  ELSE [abort |-> TRUE, isSigned |-> FALSE, err |-> "check package signature: " \o e]

\* lines 131-143: what ExtractXARMetadata makes of CheckPKGSignature's error
signatureVerdict(e) ==
  IF e = NoErr THEN [abort |-> FALSE, isSigned |-> TRUE, err |-> NoErr]
  ELSE IF e = ErrNotSigned THEN [abort |-> FALSE, isSigned |-> FALSE, err |-> NoErr]
  ELSE IF e = ErrInvalidType THEN [abort |-> TRUE, isSigned |-> FALSE, err |-> e]
  ELSE [abort |-> TRUE, isSigned |-> FALSE, err |-> "check package signature: " \o e]

\* lines 123-143: rewind, then CheckPKGSignature buffers all of tfr
SignatureCheck ==
  /\ pc = "sigcheck"
  /\ LET rw == tfrRewind(rpos, buf)
         rd == tfrRead(rw.rpos, rw.buf, Len(src))
         e == CheckPKGSignature(rd.data)
         v == signatureVerdict(e)
     IN /\ rpos' = rd.rpos /\ buf' = rd.buf
        /\ sigInput' = rd.data /\ sigErr' = e
        /\ isSignedStatus' = v.isSigned
        /\ IF v.abort THEN Fail(v.err)
           ELSE pc' = "header" /\ UNCHANGED <<err, meta>>
  /\ UNCHANGED <<src, xmlDocs, call, seekable, passes, size, sha256Hash, hdr, root, fileIdx,
                 reads, distributionContents, packageInfoContents, strategy,
                 distVars, pinfoVars>>

\* lines 145-174: rewind, decode the header, inflate and decode the TOC that
\* follows it
ReadHeaderAndTOC ==
  /\ pc = "header"
  /\ LET rw == tfrRewind(rpos, buf)
         rh == tfrRead(rw.rpos, rw.buf, xarHeaderSize)
         h == binaryRead(rh.data)
         rz == tfrRead(rh.rpos, rh.buf, h.hdr.CompressedSize)
         inflated == zlibReadAll(rz.data)
     IN IF h.err # NoErr
          THEN /\ rpos' = rh.rpos /\ buf' = rh.buf
               /\ Fail("decode xar header: " \o h.err)
               /\ UNCHANGED <<hdr, root, fileIdx>>
          ELSE /\ rpos' = rz.rpos /\ buf' = rz.buf
               /\ hdr' = h.hdr
               /\ IF zlibNewReader(rz.data) # NoErr
                    THEN Fail("create TOC reader") /\ UNCHANGED <<root, fileIdx>>
                  ELSE IF \/ inflated.err # NoErr
                          \/ ~xmlWellFormed(inflated.out)
                          \/ xmlDocs[inflated.out].rootName # "xar"
                    THEN Fail("decode TOC XML") /\ UNCHANGED <<root, fileIdx>>
                  ELSE /\ root' = xmlDocs[inflated.out].toc.files
                       /\ fileIdx' = 1
                       /\ pc' = IF root' = <<>> THEN "synth" ELSE "files"
                       /\ UNCHANGED <<err, meta>>
  /\ UNCHANGED <<src, xmlDocs, call, seekable, passes, size, sha256Hash, sigInput, sigErr,
                 isSignedStatus, reads, distributionContents, packageInfoContents,
                 strategy, distVars, pinfoVars>>

\* line 177
heapOffset == xarHeaderSize + hdr.CompressedSize

\* lines 184-202: one iteration of the loop over root.TOC.Files; tfr.ReadAt
\* reads the content of t.buf
CollectFile ==
  /\ pc = "files"
  /\ LET f == root[fileIdx]
         r == readCompressedFile(buf.bytes, heapOffset, size, f)
         kept == f.hasData /\ r.err = NoErr
     IN /\ reads' = IF f.hasData
                      THEN Append(reads, [f |-> f, heapOffset |-> heapOffset,
                                          sectionLength |-> size, err |-> r.err,
                                          contents |-> r.contents])
                      ELSE reads
        /\ distributionContents' =
             IF kept /\ f.name = "Distribution" THEN r.contents
             ELSE distributionContents
        /\ packageInfoContents' =
             IF kept /\ f.name = "PackageInfo" THEN r.contents
             ELSE packageInfoContents
  /\ fileIdx' = fileIdx + 1
  /\ pc' = IF fileIdx = Len(root) THEN "synth" ELSE "files"
  /\ UNCHANGED <<src, xmlDocs, call, seekable, passes, rpos, buf, size, sha256Hash, sigInput,
                 sigErr, isSignedStatus, hdr, root, meta, strategy, err,
                 distVars, pinfoVars>>

\* xml.Unmarshal(rawXML, &distXML) succeeds
distributionDecodes(text) ==
  xmlWellFormed(text) /\ xmlDocs[text].rootName = "installer-gui-script"

\* decoder.Decode(&packageInfo) succeeds
packageInfoDecodes(text) ==
  xmlWellFormed(text) /\ xmlDocs[text].rootName = "plist"

\* the Distribution strategy applies only when no PackageInfo was found
useDistributionAlone ==
  /\ distributionContents.set /\ distributionDecodes(distributionContents.bytes)
  /\ ~packageInfoContents.set

\* the Distribution strategy applies: the file was found and it decodes
useDistribution ==
  distributionContents.set /\ distributionDecodes(distributionContents.bytes)

\* the PackageInfo fallback applies
usePackageInfo ==
  /\ ~useDistribution
  /\ packageInfoContents.set /\ packageInfoDecodes(packageInfoContents.bytes)

\* lines 226-237 for a record a strategy produced
Finalized(rec) ==
  [present |-> TRUE,
   rec |-> [rec EXCEPT !.IsSigned = isSignedStatus,
                       !.SHA256Sum = <<"sha256", sha256Hash>>, !.PkgSize = size]]

pipelineFrame ==
  <<src, xmlDocs, call, seekable, passes, rpos, buf, size, sha256Hash, sigInput, sigErr,
    isSignedStatus, hdr, root, fileIdx, reads, distributionContents,
    packageInfoContents, err>>

\* line 207: parseDistributionFile is entered with the decoded document
CallDistribution ==
  /\ pc = "synth" /\ useDistribution
  /\ distIn' = xmlDocs[distributionContents.bytes].dist
  /\ distScan' = ScanEntry /\ distOut' = NoResult
  /\ pc' = "distribution"
  /\ UNCHANGED <<pipelineFrame, meta, strategy, pinfoVars>>

\* lines 210-211 and 233-236: its record is taken and finalized
ReturnDistribution ==
  /\ pc = "distribution" /\ distOut.done
  /\ meta' = Finalized(distOut.meta)
  /\ strategy' = "distribution"
  /\ pc' = "sha1"
  /\ UNCHANGED <<pipelineFrame, distVars, pinfoVars>>

\* line 218: parsePackageInfoFile is entered with the decoded document
CallPackageInfo ==
  /\ pc = "synth" /\ usePackageInfo
  /\ pinfoIn' = xmlDocs[packageInfoContents.bytes].pinfo
  /\ pinfoLoop' = LoopEntry /\ pinfoOut' = NoPinfoResult
  /\ pc' = "packageinfo"
  /\ UNCHANGED <<pipelineFrame, meta, strategy, distVars>>

\* lines 221-222 and 233-236: its record is taken and finalized
ReturnPackageInfo ==
  /\ pc = "packageinfo" /\ pinfoOut.done
  /\ meta' = Finalized(pinfoOut.meta)
  /\ strategy' = "packageinfo"
  /\ pc' = "sha1"
  /\ UNCHANGED <<pipelineFrame, distVars, pinfoVars>>

\* lines 227-232 returning an error where no strategy produced a record
MinimalMetadataFails ==
  /\ pc = "synth" /\ ~useDistribution /\ ~usePackageInfo
  /\ Fail("no metadata found")
  /\ UNCHANGED <<src, xmlDocs, call, seekable, passes, rpos, buf, size, sha256Hash,
                 sigInput, sigErr, isSignedStatus, hdr, root, fileIdx, reads,
                 distributionContents, packageInfoContents, strategy,
                 distVars, pinfoVars>>

\* lines 227-232: no strategy produced a record
MinimalMetadata ==
  /\ pc = "synth" /\ ~useDistribution /\ ~usePackageInfo
  /\ meta' = [present |-> TRUE,
              rec |-> [EmptyMeta EXCEPT !.SHA256Sum = <<"sha256", sha256Hash>>,
                                        !.IsSigned = FALSE]]
  /\ strategy' = "minimal"
  /\ pc' = "sha1"
  /\ UNCHANGED <<pipelineFrame, distVars, pinfoVars>>

\* the outcomes of a rewind followed by a pass over the source
Faults == {"none", "rewind", "read"}

\* one digest pass where a failed rewind or read ends the extraction
DigestPassFatal(at, next, alg) ==
  /\ pc = at
  /\ \E fault \in Faults :
       LET rw == tfrRewind(rpos, buf)
           rd == tfrRead(rw.rpos, rw.buf, Len(src))
       IN /\ passes' = Append(passes, [alg |-> alg, fault |-> fault])
          /\ CASE fault = "rewind" -> UNCHANGED <<rpos, buf>> /\ Fail("rewind")
               [] fault = "read" ->
                    /\ rpos' = rw.rpos /\ buf' = rw.buf
                    /\ Fail("read")
               [] fault = "none" ->
                    /\ rpos' = rd.rpos /\ buf' = rd.buf
                    /\ meta' = [meta EXCEPT
                         !.rec.SHA1Sum = IF alg = "sha1" THEN <<alg, rd.data>> ELSE @,
                         !.rec.MD5Sum = IF alg = "md5" THEN <<alg, rd.data>> ELSE @,
                         !.rec.SHA256Sum = IF alg = "sha256" THEN <<alg, rd.data>> ELSE @]
                    /\ pc' = next /\ UNCHANGED err
  /\ UNCHANGED <<src, xmlDocs, call, seekable, size, sha256Hash, sigInput, sigErr,
                 isSignedStatus, hdr, root, fileIdx, reads, distributionContents,
                 packageInfoContents, strategy, distVars, pinfoVars>>

\* one digest pass (lines 240-249, 250-259, 260-270): a failed rewind or a
\* failed read leaves the field as it is
DigestPass(at, next, alg) ==
  /\ pc = at
  /\ \E fault \in Faults :
       LET rw == tfrRewind(rpos, buf)
           rd == tfrRead(rw.rpos, rw.buf, Len(src))
       IN /\ passes' = Append(passes, [alg |-> alg, fault |-> fault])
          /\ CASE fault = "rewind" -> UNCHANGED <<rpos, buf, meta>>
               [] fault = "read" ->
                    /\ rpos' = rw.rpos /\ buf' = rw.buf
                    /\ UNCHANGED meta
               [] fault = "none" ->
                    /\ rpos' = rd.rpos /\ buf' = rd.buf
                    /\ meta' = [meta EXCEPT
                         !.rec.SHA1Sum = IF alg = "sha1" THEN <<alg, rd.data>> ELSE @,
                         !.rec.MD5Sum = IF alg = "md5" THEN <<alg, rd.data>> ELSE @,
                         !.rec.SHA256Sum = IF alg = "sha256" THEN <<alg, rd.data>> ELSE @]
  /\ pc' = next
  /\ UNCHANGED <<src, xmlDocs, call, seekable, size, sha256Hash, sigInput, sigErr,
                 isSignedStatus, hdr, root, fileIdx, reads, distributionContents,
                 packageInfoContents, strategy, err, distVars, pinfoVars>>

DigestSHA1 == DigestPass("sha1", "md5", "sha1")
DigestMD5 == DigestPass("md5", "sha256", "md5")
DigestSHA256 == DigestPass("sha256", "done", "sha256")

Next ==
  \/ InitialHash
  \/ SignatureCheck
  \/ ReadHeaderAndTOC
  \/ CollectFile
  \/ CallDistribution
  \/ ScanBundle
  \/ NextPkgRef
  \/ FinishDistribution
  \/ ReturnDistribution
  \/ CallPackageInfo
  \/ PinfoBundle
  \/ FinishPackageInfo
  \/ ReturnPackageInfo
  \/ MinimalMetadata
  \/ DigestSHA1
  \/ DigestMD5
  \/ DigestSHA256

Spec == Init /\ [][Next]_vars

(***************************************************************************)
(* Header, TOC and signature: properties                                   *)
(***************************************************************************)
Returned == pc = "done"
SignatureChecked == pc \notin {"idle", "start", "sigcheck"}

StartsWithMagic(b) == Len(b) >= 4 /\ SubSeq(b, 1, 4) = MagicBytes

\* the fields of the header as the bytes of an input of 28 bytes or more
\* declare them
DeclaredHeaderSize(b) == BigEndian(SubSeq(b, 5, 6))
DeclaredTOCSize(b) == Int64BE(SubSeq(b, 9, 16))
DeclaredHashID(b) == BigEndian(SubSeq(b, 25, 28))

\* the compressed TOC of b when the header ends at base
TOCBytes(b, base) == Slice(b, base, DeclaredTOCSize(b))

\* the TOC at base inflates and its text is an XML document
TOCDecodes(b, base) ==
  /\ decompress(TOCBytes(b, base)).err = NoErr
  /\ xmlWellFormed(decompress(TOCBytes(b, base)).out)

\* the document of the TOC at base
TOCDocument(b, base) == xmlDocs[decompress(TOCBytes(b, base)).out]

\* a structural failure of the header or of the table of contents, the TOC
\* taken after the 28 header bytes or after the declared header size
StructuralFailure(b) ==
  \/ ~StartsWithMagic(b)
  \/ Len(b) < xarHeaderSize
  \/ DeclaredTOCSize(b) = 0
  \/ ~TOCDecodes(b, xarHeaderSize)
  \/ ~TOCDecodes(b, DeclaredHeaderSize(b))

\* C1: an input with a bad magic, shorter than the header, with
\* compressedTOCSize = 0 or whose TOC does not inflate or parse makes
\* ExtractXARMetadata return an error and no record
C1_StructuralFailureAborts ==
  (Returned /\ StructuralFailure(src)) => (err # NoErr /\ ~meta.present)

\* a header with valid magic, a known hash id and compressedTOCSize = 0 was
\* read from a file and rejected
C1_Witness ==
  /\ Returned /\ seekable
  /\ Len(src) >= xarHeaderSize /\ StartsWithMagic(src)
  /\ KnownHash(DeclaredHashID(src))
  /\ DeclaredTOCSize(src) = 0
  /\ err # NoErr /\ ~meta.present

\* the header of the buffered input parses: 28 bytes, the magic, a known hash
HeaderParses(b) ==
  Len(b) >= xarHeaderSize /\ StartsWithMagic(b) /\ KnownHash(DeclaredHashID(b))

\* C2: when header and TOC parse, CheckPKGSignature returns nil iff one of
\* the two markers is present and ErrNotSigned iff both are absent; it never
\* returns ErrNotSigned when the header or the TOC did not parse
C2_SignedIffMarker ==
  SignatureChecked =>
    LET parses == /\ HeaderParses(sigInput)
                  /\ TOCDecodes(sigInput, DeclaredHeaderSize(sigInput))
        toc == TOCDocument(sigInput, DeclaredHeaderSize(sigInput)).toc
    IN /\ parses => /\ (sigErr = NoErr) = (toc.signature \/ toc.xsignature)
                    /\ (sigErr = ErrNotSigned) = (~toc.signature /\ ~toc.xsignature)
       /\ ~parses => sigErr \notin {ErrNotSigned, NoErr}

\* a container carrying only the extended-signature marker was classified
C2_Witness ==
  /\ SignatureChecked
  /\ HeaderParses(sigInput) /\ TOCDecodes(sigInput, DeclaredHeaderSize(sigInput))
  /\ ~TOCDocument(sigInput, DeclaredHeaderSize(sigInput)).toc.signature
  /\ TOCDocument(sigInput, DeclaredHeaderSize(sigInput)).toc.xsignature
  /\ sigErr = NoErr

\* C3: CheckPKGSignature returns ErrInvalidType for every input that does
\* not start with the magic, whatever its length and hash id (the inputs
\* here are those a file hands it)
C3_NonContainerIsInvalidType ==
  (SignatureChecked /\ seekable /\ ~StartsWithMagic(sigInput))
    => sigErr = ErrInvalidType

\* the container is well-formed but for its hash id: 28 bytes or more, the
\* magic, and a TOC that decodes to a <xar> document wherever it is read
WellFormedButHashID(b) ==
  /\ Len(b) >= xarHeaderSize /\ StartsWithMagic(b)
  /\ TOCDecodes(b, xarHeaderSize) /\ TOCDecodes(b, DeclaredHeaderSize(b))
  /\ TOCDocument(b, xarHeaderSize).rootName = "xar"

\* C4: the outcome of ExtractXARMetadata does not depend on the hash id, so
\* a container well-formed but for its hash id, read from a file, yields a
\* record
C4_HashIDNotValidated ==
  (Returned /\ seekable /\ WellFormedButHashID(src)) => (err = NoErr /\ meta.present)

(***************************************************************************)
(* Section extraction: properties                                          *)
(***************************************************************************)
Uncompressed(f) == ~Contains(f.style, "x-gzip") /\ ~Contains(f.style, "x-bzip2")

\* C5: with heapBase the declared headerSize + compressedTOCSize, an
\* uncompressed entry in bounds is read as the source bytes at
\* [heapBase+offset, heapBase+offset+length)
C5_StoredEntryRoundTrip ==
  \A i \in 1..Len(reads) :
    LET f == reads[i].f
        heapBase == hdr.HeaderSize + hdr.CompressedSize
    IN (Uncompressed(f) /\ f.length >= 1 /\ heapBase + f.offset + f.length <= Len(src))
         => /\ reads[i].err = NoErr
            /\ reads[i].contents.bytes = SubSeq(src, heapBase + f.offset + 1,
                                                heapBase + f.offset + f.length)

\* C6: readCompressedFile fails when the range of the entry is empty or not
\* within [0, totalSize), and never returns fewer than length bytes for an
\* uncompressed entry
C6_BadRangeFails ==
  \A i \in 1..Len(reads) :
    LET f == reads[i].f
        from == reads[i].heapOffset + f.offset
    IN /\ (f.length = 0 \/ from < 0 \/ from + f.length > reads[i].sectionLength)
            => reads[i].err # NoErr
       /\ (Uncompressed(f) /\ reads[i].err = NoErr)
            => Len(reads[i].contents.bytes) = f.length

(***************************************************************************)
(* Strategy selection and the minimal record: properties                   *)
(***************************************************************************)
\* the entries of the TOC named `name` that were extracted without error
ExtractedEntries(name) ==
  {i \in 1..Len(reads) : reads[i].f.name = name /\ reads[i].err = NoErr}

\* the contents of the last of them, the one the strategies are given
Extracted(name) ==
  IF ExtractedEntries(name) = {} THEN NoContents
  ELSE reads[CHOOSE i \in ExtractedEntries(name) :
               \A j \in ExtractedEntries(name) : j <= i].contents

DistributionParses ==
  Extracted("Distribution").set /\ distributionDecodes(Extracted("Distribution").bytes)

PackageInfoParses ==
  Extracted("PackageInfo").set /\ packageInfoDecodes(Extracted("PackageInfo").bytes)

\* an entry failed to extract, or was extracted and failed to parse
SomeEntryFailed ==
  \/ \E i \in 1..Len(reads) : reads[i].err # NoErr
  \/ Extracted("Distribution").set /\ ~DistributionParses
  \/ Extracted("PackageInfo").set /\ ~PackageInfoParses

\* the collection loop and the strategies are over
Synthesized == pc \in {"sha1", "md5", "sha256", "done"} /\ strategy # "none"

\* C13: a Distribution entry that is extracted and parses gives the record
\* and PackageInfo is not consulted; the PackageInfo strategy gives the record
\* only when no Distribution entry was extracted or it did not parse; a
\* failure to extract or parse an entry does not abort the extraction
C13_StrategySelection ==
  /\ Synthesized =>
       /\ DistributionParses =>
            /\ strategy = "distribution" /\ PinfoIdle
            /\ meta.rec.ApplicationTitle = distOut.meta.ApplicationTitle
            /\ meta.rec.AppBundles = distOut.meta.AppBundles
       /\ strategy = "packageinfo" => (~DistributionParses /\ PackageInfoParses)
       /\ (~DistributionParses /\ PackageInfoParses) => strategy = "packageinfo"
  /\ (Returned /\ SomeEntryFailed) => (err = NoErr /\ meta.present)

\* both entries extracted and parsing: Distribution gives the record
C13_Witness ==
  /\ Returned /\ DistributionParses /\ PackageInfoParses
  /\ strategy = "distribution" /\ meta.present

\* the Distribution entry extracted but not parsing: PackageInfo steps in
C13_WitnessFallback ==
  /\ Returned /\ Extracted("Distribution").set /\ ~DistributionParses
  /\ strategy = "packageinfo" /\ meta.present /\ err = NoErr

\* the package is structurally valid: the header with a known hash id, and a
\* TOC that decodes to a <xar> document
StructurallyValid(b) == WellFormedButHashID(b) /\ KnownHash(DeclaredHashID(b))

\* every digest pass made so far went without a failed rewind or read
SourceReadable == \A i \in 1..Len(passes) : passes[i].fault = "none"

\* C14: a structurally valid package read from a file, none of whose entries
\* gives a strategy its metadata, yields a record with isSigned = false, empty
\* title and version and, the source readable, the three digests of the source
C14_MinimalRecord ==
  (Returned /\ seekable /\ StructurallyValid(src)
     /\ ~DistributionParses /\ ~PackageInfoParses) =>
    /\ err = NoErr /\ meta.present
    /\ meta.rec.IsSigned = FALSE
    /\ meta.rec.ApplicationTitle = "" /\ meta.rec.Version = ""
    /\ SourceReadable =>
         /\ meta.rec.SHA1Sum = <<"sha1", src>>
         /\ meta.rec.MD5Sum = <<"md5", src>>
         /\ meta.rec.SHA256Sum = <<"sha256", src>>

\* both entries were extracted and neither parses; the digests are there
C14_Witness ==
  /\ Returned /\ seekable /\ StructurallyValid(src)
  /\ Extracted("Distribution").set /\ ~DistributionParses
  /\ Extracted("PackageInfo").set /\ ~PackageInfoParses
  /\ SourceReadable /\ Len(passes) = 3
  /\ meta.present /\ meta.rec.SHA1Sum = <<"sha1", src>>
  /\ meta.rec.IsSigned = FALSE

(***************************************************************************)
(* Digests: properties                                                     *)
(***************************************************************************)
\* the pass for alg was made and went as fault says
PassWent(alg, fault) ==
  \E i \in 1..Len(passes) : passes[i].alg = alg /\ passes[i].fault = fault

PassFailed(alg) == PassWent(alg, "rewind") \/ PassWent(alg, "read")

\* C15: after synthesis no failed rewind or read of a digest pass makes
\* ExtractXARMetadata fail; a failed SHA-1 or MD5 pass leaves its own field
\* empty and the others as their passes set them; the SHA-256 field holds the
\* value of the initial pass unless the later pass succeeds and overwrites it
C15_DigestFailuresNonFatal ==
  (Returned /\ Synthesized) =>
    /\ err = NoErr /\ meta.present
    /\ Len(passes) = 3
    /\ PassFailed("sha1") => meta.rec.SHA1Sum = <<>>
    /\ PassWent("sha1", "none") => meta.rec.SHA1Sum = <<"sha1", src>>
    /\ PassFailed("md5") => meta.rec.MD5Sum = <<>>
    /\ PassWent("md5", "none") => meta.rec.MD5Sum = <<"md5", src>>
    /\ PassFailed("sha256") => meta.rec.SHA256Sum = <<"sha256", sha256Hash>>
    /\ PassWent("sha256", "none") => meta.rec.SHA256Sum = <<"sha256", src>>

\* the SHA-1 read and the SHA-256 rewind failed, the MD5 pass went through
C15_Witness ==
  /\ Returned /\ Synthesized
  /\ PassWent("sha1", "read") /\ PassWent("md5", "none") /\ PassWent("sha256", "rewind")
  /\ err = NoErr
  /\ meta.rec.SHA1Sum = <<>> /\ meta.rec.MD5Sum = <<"md5", src>>
  /\ meta.rec.SHA256Sum = <<"sha256", sha256Hash>>

(***************************************************************************)
(* Signature elements at any depth: properties                             *)
(***************************************************************************)
\* C16: a signature or x-signature element anywhere under <toc>, also inside
\* a <file> element, makes CheckPKGSignature classify the package as signed
C16_SignatureAtAnyDepth ==
  (/\ SignatureChecked /\ HeaderParses(sigInput)
   /\ TOCDecodes(sigInput, DeclaredHeaderSize(sigInput))) =>
    LET toc == TOCDocument(sigInput, DeclaredHeaderSize(sigInput)).toc IN
    (toc.signature \/ toc.xsignature \/ toc.nestedSignature)
      => (sigErr = NoErr /\ isSignedStatus)

(***************************************************************************)
(* TempFileReader on its own: Read, Rewind, ReadAt and Size in any order   *)
(***************************************************************************)
MaxSrcLen == 3     \* longest source behind the reader
MaxBuffered == 6   \* Read is followed while t.buf holds no more than this

\* the sources: byte i of a source is i, so that a byte tells its offset
Sources == {[i \in 1..k |-> i] : k \in 0..MaxSrcLen}

readerFrame ==
  <<src, xmlDocs, seekable, passes, pc, size, sha256Hash, sigInput, sigErr,
    isSignedStatus, hdr, root, fileIdx, reads, distributionContents,
    packageInfoContents, meta, strategy, err, distVars, pinfoVars>>

InitReader ==
  /\ src \in Sources /\ seekable \in BOOLEAN
  /\ xmlDocs = <<>> /\ passes = <<>> /\ call = NoCall
  /\ rpos = 0 /\ buf = NilBuf /\ pc = "idle" /\ size = 0 /\ sha256Hash = <<>>
  /\ sigInput = <<>> /\ sigErr = NoErr /\ isSignedStatus = FALSE
  /\ hdr = ZeroHeader /\ root = <<>> /\ fileIdx = 0 /\ reads = <<>>
  /\ distributionContents = NoContents /\ packageInfoContents = NoContents
  /\ meta = [present |-> FALSE, rec |-> EmptyMeta] /\ strategy = "none"
  /\ err = NoErr
  /\ DistIdle /\ PinfoIdle

\* t.Read until n bytes or the end of t.Reader (lines 107-123)
ReaderRead ==
  /\ pc = "idle"
  /\ \E n \in 1..MaxSrcLen :
       /\ Len(buf.bytes) + n <= MaxBuffered
       /\ \E rd \in {tfrRead(rpos, buf, n)} :
            /\ rpos' = rd.rpos /\ buf' = rd.buf
            /\ call' = [NoCall EXCEPT !.op = "Read", !.n = n, !.data = rd.data,
                                      !.afterRewind = (call.op = "Rewind")]
  /\ UNCHANGED readerFrame

\* t.Rewind (lines 126-142)
ReaderRewind ==
  /\ pc = "idle"
  /\ \E rw \in {tfrRewind(rpos, buf)} :
       /\ rpos' = rw.rpos /\ buf' = rw.buf
  /\ call' = [NoCall EXCEPT !.op = "Rewind"]
  /\ UNCHANGED readerFrame

\* t.ReadAt(p, off) with len(p) = n (lines 145-156): a nil t.buf is first
\* filled with what t.Reader has left
ReaderReadAt ==
  /\ pc = "idle"
  /\ \E off \in 0..MaxSrcLen, n \in 1..MaxSrcLen :
     \E b \in {IF buf.alloc THEN buf
               ELSE [alloc |-> TRUE, bytes |-> Slice(src, rpos, Len(src))]} :
     \E r \in {bytesReadAt(b.bytes, off, n)} :
       /\ buf' = b
       /\ rpos' = IF buf.alloc THEN rpos ELSE Len(src)
       /\ call' = [NoCall EXCEPT !.op = "ReadAt", !.off = off, !.n = n,
                                 !.data = r.data, !.err = r.err]
  /\ UNCHANGED readerFrame

\* t.Size (lines 159-164)
ReaderSize ==
  /\ pc = "idle"
  /\ call' = [NoCall EXCEPT !.op = "Size",
                            !.size = IF buf.alloc THEN Len(buf.bytes) ELSE 0]
  /\ UNCHANGED <<rpos, buf, readerFrame>>

NextReader ==
  \/ ReaderRead
  \/ ReaderRewind
  \/ ReaderReadAt
  \/ ReaderSize

SpecReader == InitReader /\ [][NextReader]_vars

\* C17: a full read after Rewind yields the source from offset 0, whatever
\* the wrapped reader; ReadAt(p, off) yields the len(p) source bytes at off or
\* an error, whatever was read before; Size is the length of the source
C17_ByteSourceContract ==
  /\ (call.op = "Read" /\ call.afterRewind /\ call.n >= Len(src))
       => call.data = src
  /\ call.op = "ReadAt" =>
       IF call.off + call.n <= Len(src)
         THEN call.err = NoErr
              /\ call.data = SubSeq(src, call.off + 1, call.off + call.n)
         ELSE call.err # NoErr
  /\ call.op = "Size" => call.size = Len(src)

(***************************************************************************)
(* Invariants of the returned record                                       *)
(***************************************************************************)
\* C18: the record ExtractXARMetadata returns has isSigned true exactly when
\* the signature check of that extraction classified the package as signed,
\* whichever strategy, or none, gave the record
C18_IsSignedIsTheVerdict ==
  (Returned /\ meta.present) =>
    /\ meta.rec.IsSigned = isSignedStatus
    /\ meta.rec.IsSigned = (sigErr = NoErr)

\* C19: the primary identifier and path of a record of the Distribution
\* strategy, the identifier not empty, are the id and path of one AppBundle
\* of the record
C19_PrimaryIsAnAppBundle ==
  (distOut.done /\ distOut.meta.PrimaryBundleIdentifier # "") =>
    \E i \in 1..Len(distOut.meta.AppBundles) :
      /\ distOut.meta.AppBundles[i].ID = distOut.meta.PrimaryBundleIdentifier
      /\ distOut.meta.AppBundles[i].AppLocationPath = distOut.meta.PrimaryBundlePath

====
